---- MODULE Spec2Model ----
(***************************************************************************)
(* Model of the IQData readers of src/iqdata.py: one IQData instance bound *)
(* to one file, and the calls read_tdms_information, read_tdms, read_bin,  *)
(* read_ascii, read_wav, read_iq, read_iqt, read_tiq and read_tcap made on *)
(* it one after the other.  A reader is called on a file of its format or  *)
(* on the empty file; read_tcap, which looks at the size first, on every   *)
(* file.                                                                   *)
(*                                                                         *)
(* Representation choices:                                                 *)
(*  - a sample of data_array is a pair <<re, im>> of integers (the scaled  *)
(*    I and Q values); a TCAP/TIQ/IQT sample, whose bytes are not stored   *)
(*    in the model, is the tuple of the places it was read from;           *)
(*  - data_array is None or a record [dtype, v] with v the sequence of     *)
(*    elements, so that numpy's .size is Len(v);                           *)
(*  - a call that ends by an uncaught Python exception has outcome         *)
(*    "raised"; one that ends by return has outcome "returned".            *)
(***************************************************************************)
EXTENDS Integers, Sequences, FiniteSets, TLC

VARIABLES
    file,   \* the file on disk the instance was constructed for
    self,   \* the fields of the IQData instance
    call,   \* the last call: operation, arguments, outcome
    frame,  \* the local variables of the last call when it ended
    opens,  \* the handles the last call opened, and those of them it closed
    wa,     \* window arithmetic of read_tdms applied to a bare geometry
    reg     \* a 12-byte TFP register and its decoding by parse_tcap_tfp

vars == <<file, self, call, frame, opens, wa, reg>>

\* Python's None, a record so that it compares with the record values
None == [py |-> "None"]

\* ---------------------------------------------------------------- bounds
\* the frame lengths and frame counts of the calls, and the last start frame
LFrames == {1, 2}
\* the frame lengths of the probe: 0 is the one that line 127 cannot divide by
ProbeLFrames == {0} \cup LFrames
NFrames == {1, 2}
MaxS == 4
MaxSpr == 2
MaxRec == 4
MetaSegSize == 3
RecSegSize == 5

\* ------------------------------------------------------- python helpers
Min(a, b) == IF a < b THEN a ELSE b
Max(a, b) == IF a > b THEN a ELSE b

\* s[a:b] of Python for 0 <= a, 0 <= b: the elements with 0-based index a..b-1
Slice(s, a, b) == SubSeq(s, Min(a, Len(s)) + 1, Min(b, Len(s)))

\* s[a:] of Python
SliceFrom(s, a) == SubSeq(s, Min(a, Len(s)) + 1, Len(s))

\* ------------------------------------------------------------ TDMS file
\* A TDMS file: an optional metadata-only segment carrying the root
\* properties, then nrec record segments of spr samples per channel.  When
\* there is no metadata-only segment the first record's segment carries the
\* properties and is longer by that much.
\* I and Q of the sample with global 0-based index g, for spr samples per
\* record.  "ramp": all values differ and none is 0; "zero": the last I of
\* record 1 is 0; "same": the last I of record 2 equals the last I of record 1.
SampleI(pat, spr, g) ==
    CASE pat = "zero" /\ g = spr - 1 -> 0
      [] pat = "same" /\ g = 2 * spr - 1 -> spr
      [] OTHER -> g + 1

SampleQ(pat, spr, g) == 50 + g + 1

\* gain stored in the header of record r
GainOf(r) == r + 1

\* the root properties; nonnumeric names those whose stored text is no number
RootProps(spr, nrec) ==
    [IQRate |-> 1000, RFAttentuation |-> 10, IQCarrierFrequency |-> 245,
     NSamplesPerRecord |-> spr, NRecordsPerFile |-> nrec, nonnumeric |-> {}]

\* segment i of the file (its byte range is start .. start + size - 1)
TdmsSeg(hasMeta, spr, nrec, pat, i) ==
    LET r == IF hasMeta THEN i - 1 ELSE i   \* the record held, 0: none
    IN  IF r = 0
        THEN [start |-> 0, size |-> MetaSegSize, props |-> TRUE,
              I |-> <<>>, Q |-> <<>>, gain |-> <<>>]
        ELSE [start |-> IF r = 1 THEN (IF hasMeta THEN MetaSegSize ELSE 0)
                        ELSE MetaSegSize + (r - 1) * RecSegSize,
              size  |-> IF r = 1 /\ ~hasMeta THEN MetaSegSize + RecSegSize
                        ELSE RecSegSize,
              props |-> (r = 1 /\ ~hasMeta),
              I     |-> [k \in 1..spr |-> SampleI(pat, spr, (r - 1) * spr + k - 1)],
              Q     |-> [k \in 1..spr |-> SampleQ(pat, spr, (r - 1) * spr + k - 1)],
              gain  |-> <<GainOf(r)>>]

TdmsFile(hasMeta, spr, nrec, pat) ==
    [fmt |-> "tdms", hasMeta |-> hasMeta, spr |-> spr, nrec |-> nrec, pat |-> pat,
     props |-> RootProps(spr, nrec),
     segs |-> [i \in 1..(nrec + IF hasMeta THEN 1 ELSE 0) |->
                  TdmsSeg(hasMeta, spr, nrec, pat, i)],
     size |-> MetaSegSize + nrec * RecSegSize]

\* ramp files with and without a metadata-only segment, files whose
\* record-end samples collide, down to the smallest file of two records, and
\* a file on which the probe fails
\* a file cut inside its first record: the metadata-only segment is whole
\* and the bytes after it are no segment
TdmsTruncated ==
    [TdmsFile(TRUE, MaxSpr, 0, "ramp") EXCEPT !.size = MetaSegSize + RecSegSize - 1]

\* a file whose root properties lack NRecordsPerFile
TdmsNoCount ==
    LET f == TdmsFile(TRUE, MaxSpr, MaxRec, "ramp")
    IN  [f EXCEPT !.props = [k \in (DOMAIN f.props) \ {"NRecordsPerFile"} |->
                                f.props[k]]]
\* a file whose NRecordsPerFile is stored as text that is no number
TdmsTextCount ==
    LET f == TdmsFile(TRUE, MaxSpr, MaxRec, "ramp")
    IN  [f EXCEPT !.props.nonnumeric = {"NRecordsPerFile"}]

TdmsFiles ==
    {TdmsFile(m, MaxSpr, MaxRec, "ramp") : m \in BOOLEAN}
    \cup {TdmsFile(FALSE, MaxSpr, MaxRec, p) : p \in {"zero", "same"}}
    \cup {TdmsFile(FALSE, MaxSpr, 2, "same")}
    \cup {TdmsTruncated, TdmsNoCount, TdmsTextCount}

\* the segment that starts at byte pos, 0 when pos is no segment boundary
SegAt(f, pos) ==
    LET hit == {i \in 1..Len(f.segs) : f.segs[i].start = pos}
    IN  IF hit = {} THEN 0 ELSE CHOOSE i \in hit : TRUE

\* byte offset of the end of record r (r >= 1)
RecEnd(f, r) == MetaSegSize + r * RecSegSize

\* I and Q of the file's sample with global 0-based index g
FileI(f, g) == SampleI(f.pat, f.spr, g)
FileQ(f, g) == SampleQ(f.pat, f.spr, g)

\* a file of 0 bytes: it is of no format, and every reader runs on it up to
\* the first thing it looks for in the file
EmptyFile == [fmt |-> "empty", size |-> 0]

\* the instance is bound to a file of the format fmt, or to the empty file
Holds(fmt) == file.fmt \in {fmt, "empty"}

\* ------------------------------------------------------------- instance
\* IQData.__init__
InitSelf ==
    [acq_bw |-> 0, center |-> 0, date_time |-> "", number_samples |-> 0,
     rbw |-> 0, rf_att |-> 0, fs |-> 0, span |-> 0, scale |-> 0,
     header |-> None, data_array |-> None, lframes |-> 0, nframes_tot |-> 0,
     nframes |-> 0, tdms_nSamplesPerRecord |-> 0, tdms_nRecordsPerFile |-> 0,
     tdms_first_rec_size |-> 0, tdms_other_rec_size |-> 0,
     tcap_scalers |-> None, tcap_pio |-> None]

NoCall ==
    [op |-> "none", N |-> 0, L |-> 0, S |-> 0, again |-> FALSE,
     probed |-> FALSE, clean |-> TRUE, outcome |-> "none", exit |-> ""]
NoFrame == [op |-> "none"]
\* a call that ran opened open() calls and closed of them by close() or by
\* leaving a with block
Handles(opened, closed) == [opened |-> opened, closed |-> closed]
NoWa == [state |-> "off"]
NoReg == [state |-> "off"]

Idle == call.outcome # "running"

\* the record of a call that starts; again tells that the call before it on
\* this instance was the same method with the same arguments, probed that a
\* read_tdms_information call has run to its last line on this instance,
\* clean that no call before it on this instance raised
Begin(op, N, L, S) ==
    [op |-> op, N |-> N, L |-> L, S |-> S,
     again |-> (call.op = op /\ call.N = N /\ call.L = L /\ call.S = S),
     probed |-> call.probed, clean |-> (call.clean /\ call.outcome # "raised"),
     outcome |-> "running", exit |-> ""]

\* a reader that stores the size of the window as the sample count
SetFramesSetsCount(s, nframes, lframes) ==
    [s EXCEPT !.lframes = lframes, !.nframes = nframes,
              !.number_samples = nframes * lframes]
\* a reader that adds the frame count to the stored one
SetFramesAccumulates(s, nframes, lframes) ==
    [s EXCEPT !.lframes = lframes, !.nframes = @ + nframes]
\* a reader that also drops the buffer when it stores the window
SetFramesDropsBuffer(s, nframes, lframes) ==
    [s EXCEPT !.lframes = lframes, !.nframes = nframes, !.data_array = None]
\* "self.lframes = lframes; self.nframes = nframes", the first two statements
\* of every read_* method
SetFrames(s, nframes, lframes) == [s EXCEPT !.lframes = lframes, !.nframes = nframes]

\* ------------------------------------------------------ pyTDMS.readSegment
EmptyRaw == [I |-> <<>>, Q |-> <<>>, gain |-> <<>>]

\* readSegment(f, sz, (objects, raw_data)) with the handle at byte pos: the
\* segment's properties are merged into objects, its channel data appended
\* to raw_data, and the handle is left at the segment's end.  A position
\* that is no segment start cannot be parsed.
ReadSegment(f, pos, objects, raw) ==
    LET i == SegAt(f, pos)
    IN  IF i = 0
        THEN [ok |-> FALSE, pos |-> pos, objects |-> objects, raw |-> raw]
        ELSE [ok |-> TRUE,
              pos |-> pos + f.segs[i].size,
              objects |-> IF f.segs[i].props THEN f.props ELSE objects,
              raw |-> [I |-> raw.I \o f.segs[i].I, Q |-> raw.Q \o f.segs[i].Q,
                       gain |-> raw.gain \o f.segs[i].gain]]

\* os.path.getsize
FileSize(f) == f.size

\* -------------------------------------------------- read_tdms_information
\* one iteration of "while f.tell() < sz", lines 102-118; st carries the
\* locals and the two instance fields the loop assigns
ProbeIter(f, st) ==
    LET r == ReadSegment(f, st.pos, st.objects, st.raw)
        both == r.raw.I # <<>> /\ r.raw.Q # <<>>
        last_i == r.raw.I[Len(r.raw.I)]
        last_q == r.raw.Q[Len(r.raw.Q)]
        fresh == both /\ st.last_i_ff # last_i /\ st.last_q_ff # last_q
        how_many == IF fresh THEN st.how_many + 1 ELSE st.how_many
    IN  IF ~r.ok
        THEN [st EXCEPT !.failed = TRUE]
        ELSE [st EXCEPT !.pos = r.pos, !.objects = r.objects, !.raw = r.raw,
                        !.how_many = how_many,
                        !.last_i_ff = IF fresh THEN last_i ELSE @,
                        !.last_q_ff = IF fresh THEN last_q ELSE @,
                        !.first = IF fresh /\ how_many = 1 THEN r.pos ELSE @,
                        !.other = IF fresh /\ how_many = 2
                                  THEN r.pos - st.first ELSE @,
                        !.brk = fresh /\ how_many = 2]

RECURSIVE ProbeLoop(_, _)
ProbeLoop(f, st) ==
    IF st.failed \/ st.brk \/ st.pos >= st.sz
    THEN st
    ELSE ProbeLoop(f, ProbeIter(f, st))

\* lines 120-125: the property each line looks up, the field it assigns, and
\* how it ends when the property is absent or its text is no number
MetaLines ==
    << [key |-> "IQRate", field |-> "fs",
        absent |-> "KeyError@120", bad |-> "ValueError@120"],
       [key |-> "RFAttentuation", field |-> "rf_att",
        absent |-> "KeyError@121", bad |-> "ValueError@121"],
       [key |-> "IQCarrierFrequency", field |-> "center",
        absent |-> "KeyError@122", bad |-> "ValueError@122"],
       [key |-> "NSamplesPerRecord", field |-> "tdms_nSamplesPerRecord",
        absent |-> "KeyError@124", bad |-> "ValueError@124"],
       [key |-> "NRecordsPerFile", field |-> "tdms_nRecordsPerFile",
        absent |-> "KeyError@125", bad |-> "ValueError@125"] >>

\* lines 120-125 from the i-th lookup on, one assignment after the other: a
\* line that raises leaves the assignments of the lines before it in place.
\* Line 123 stores date_time between the third and the fourth lookup.
RECURSIVE ProbeAssign(_, _, _)
ProbeAssign(s, o, i) ==
    IF i > Len(MetaLines)
    THEN [self |-> s, exit |-> ""]
    ELSE LET m == MetaLines[i]
             s1 == IF m.field = "tdms_nSamplesPerRecord"
                   THEN [s EXCEPT !.date_time = "ctime"] ELSE s
         IN  IF m.key \notin DOMAIN o
             THEN [self |-> s1, exit |-> m.absent]
             ELSE IF m.key \in o.nonnumeric
             THEN [self |-> s1, exit |-> m.bad]
             ELSE ProbeAssign([s1 EXCEPT ![m.field] = o[m.key]], o, i + 1)

\* lines 120-127: the lookups, then the sample count of line 126 and the
\* division of line 127
ProbeMeta(s, o, lframes) ==
    LET r == ProbeAssign(s, IF o = None THEN [nonnumeric |-> {}] ELSE o, 1)
        ns == r.self.tdms_nSamplesPerRecord * r.self.tdms_nRecordsPerFile
        s6 == [r.self EXCEPT !.number_samples = ns]
    IN  IF r.exit # ""
        THEN r
        ELSE IF lframes = 0
        THEN [self |-> s6, exit |-> "ZeroDivisionError@127"]
        ELSE [self |-> [s6 EXCEPT !.nframes_tot = ns \div lframes],
              exit |-> "end@127"]

\* the whole of read_tdms_information; the handle opened at line 100 is
\* never closed
ReadTdmsInformation(lframes) ==
    /\ Idle
    /\ Holds("tdms")
    /\ opens' = Handles(1, 0)
    /\ LET c == Begin("read_tdms_information", 0, lframes, 0)
           st == ProbeLoop(file,
                    [sz |-> FileSize(file), how_many |-> 0, last_i_ff |-> 0,
                     last_q_ff |-> 0, objects |-> None, raw |-> EmptyRaw,
                     pos |-> 0, brk |-> FALSE, failed |-> FALSE,
                     first |-> self.tdms_first_rec_size,
                     other |-> self.tdms_other_rec_size])
           s1 == [self EXCEPT !.lframes = lframes,
                              !.tdms_first_rec_size = st.first,
                              !.tdms_other_rec_size = st.other]
           r == ProbeMeta(s1, st.objects, lframes)
       IN  /\ frame' = [op |-> "read_tdms_information", how_many |-> st.how_many,
                        pos |-> st.pos, brk |-> st.brk]
           /\ IF st.failed
              THEN /\ call' = [c EXCEPT !.outcome = "raised",
                                        !.exit = "readSegment@102"]
                   /\ self' = s1
              ELSE IF r.exit # "end@127"
              THEN /\ call' = [c EXCEPT !.outcome = "raised", !.exit = r.exit]
                   /\ self' = r.self
              ELSE /\ call' = [c EXCEPT !.outcome = "returned", !.exit = "end@127",
                                        !.probed = TRUE]
                   /\ self' = r.self
    /\ UNCHANGED <<file, wa, reg>>

\* ------------------------------------------------------------- read_tdms
\* the window arithmetic of lines 143-159
TotalNBytes(nframes, lframes) == nframes * lframes
StartNBytes(sframes, lframes) == (sframes - 1) * lframes
StartRecord(start_n_bytes, spr) == (start_n_bytes \div spr) + 1
StartingSample(start_n_bytes, spr) == start_n_bytes % spr
NRecords(starting_sample, total_n_bytes, spr) ==
    ((starting_sample + total_n_bytes) \div spr) + 1
TooMuch(start_record, n_records, nrec) == start_record + n_records > nrec
AbsoluteSize(first, other, start_record, n_records) ==
    first + (start_record + n_records - 2) * other

\* line 172: the jump is taken when the handle stands at the end of the
\* first record and the start record is not the first
Jump(start_record, pos, first) == start_record > 1 /\ pos = first
\* line 174: where the jump lands
JumpTarget(pos, start_record, other) == pos + (start_record - 2) * other

\* one iteration of "while f.tell() < absolute_size", lines 168-178
TdmsIter(f, st) ==
    LET jump == Jump(st.start_record, st.pos, st.first)
        at == IF jump THEN JumpTarget(st.pos, st.start_record, st.other)
              ELSE st.pos
        r == ReadSegment(f, at, st.objects, st.raw)
    IN  IF ~r.ok
        THEN \* the seek of line 174 has moved the handle before line 178 raises
             [st EXCEPT !.failed = TRUE, !.pos = at,
                        !.seeks = IF jump THEN @ + 1 ELSE @]
        ELSE [st EXCEPT !.pos = r.pos, !.objects = r.objects, !.raw = r.raw,
                        !.seeks = IF jump THEN @ + 1 ELSE @,
                        !.parsed = Append(@, at)]

RECURSIVE TdmsLoop(_, _)
TdmsLoop(f, st) ==
    IF st.failed \/ st.pos >= st.absolute_size
    THEN st
    ELSE TdmsLoop(f, TdmsIter(f, st))

\* lines 190-196: drop the duplicated first record, slice the window
\* a reader that keeps the duplicated first record
TrimNothing(s, start_record, spr) == s
TrimDuplicates(s, start_record, spr) ==
    IF start_record > 1 THEN SliceFrom(s, spr) ELSE s
SliceWindow(s, starting_sample, total_n_bytes) ==
    Slice(s, starting_sample, starting_sample + total_n_bytes)

\* numpy's a[::2] = x for a of n elements: x fits when it has n elements or 1
Fits(x, n) == Len(x) = n \/ Len(x) = 1
Broadcast(x, n) == IF Len(x) = n THEN x ELSE [k \in 1..n |-> x[1]]

\* lines 199-204
Complex(ii, qq, scale) ==
    [dtype |-> "complex64",
     v |-> [k \in 1..Len(ii) |-> <<scale * ii[k], scale * qq[k]>>]]
Zeros(dtype, n) == [dtype |-> dtype, v |-> [k \in 1..n |-> 0]]

\* the whole of read_tdms
ReadTdms(nframes, lframes, sframes) ==
    /\ Idle
    /\ Holds("tdms")
    /\ LET c == Begin("read_tdms", nframes, lframes, sframes)
           s1 == SetFrames(self, nframes, lframes)
           spr == self.tdms_nSamplesPerRecord
           total == TotalNBytes(nframes, lframes)
           start == StartNBytes(sframes, lframes)
           start_record == StartRecord(start, spr)
           starting == StartingSample(start, spr)
           n_records == NRecords(starting, total, spr)
           st == TdmsLoop(file,
                    [start_record |-> start_record,
                     first |-> self.tdms_first_rec_size,
                     other |-> self.tdms_other_rec_size,
                     absolute_size |->
                         AbsoluteSize(self.tdms_first_rec_size,
                                      self.tdms_other_rec_size,
                                      start_record, n_records),
                     objects |-> None, raw |-> EmptyRaw, pos |-> 0,
                     seeks |-> 0, parsed |-> <<>>, failed |-> FALSE])
           ii == SliceWindow(TrimDuplicates(st.raw.I, start_record, spr),
                             starting, total)
           qq == SliceWindow(TrimDuplicates(st.raw.Q, start_record, spr),
                             starting, total)
           loc == [op |-> "read_tdms", start_record |-> start_record,
                   starting_sample |-> starting, n_records |-> n_records,
                   pos |-> st.pos, seeks |-> st.seeks, parsed |-> st.parsed]
       IN  IF spr = 0
           THEN /\ call' = [c EXCEPT !.outcome = "raised",
                                     !.exit = "ZeroDivisionError@148"]
                /\ self' = s1
                /\ frame' = NoFrame
                /\ opens' = Handles(0, 0)
           ELSE IF TooMuch(start_record, n_records, self.tdms_nRecordsPerFile)
           THEN /\ call' = [c EXCEPT !.outcome = "returned", !.exit = "return@156"]
                /\ self' = s1
                /\ frame' = [op |-> "read_tdms", start_record |-> start_record,
                             starting_sample |-> starting,
                             n_records |-> n_records]
                /\ opens' = Handles(0, 0)
           ELSE IF st.failed
           THEN \* the exception leaves the handle of line 165 open
                /\ call' = [c EXCEPT !.outcome = "raised",
                                     !.exit = "readSegment@178"]
                /\ self' = s1
                /\ frame' = loc
                /\ opens' = Handles(1, 0)
           ELSE IF st.raw.I = <<>> \/ st.raw.Q = <<>>
           THEN /\ call' = [c EXCEPT !.outcome = "raised", !.exit = "KeyError@187"]
                /\ self' = s1
                /\ frame' = loc
                /\ opens' = Handles(1, 1)
           ELSE IF ~(Fits(ii, total) /\ Fits(qq, total))
           THEN /\ call' = [c EXCEPT !.outcome = "raised", !.exit = "ValueError@200"]
                /\ self' = [s1 EXCEPT !.data_array = Zeros("float32", 2 * total)]
                /\ frame' = loc
                /\ opens' = Handles(1, 1)
           ELSE /\ call' = [c EXCEPT !.outcome = "returned", !.exit = "end@205"]
                /\ self' = [s1 EXCEPT
                      !.scale = st.raw.gain[1],
                      !.data_array = Complex(Broadcast(ii, total),
                                             Broadcast(qq, total),
                                             st.raw.gain[1])]
                /\ frame' = loc
                /\ opens' = Handles(1, 1)
    /\ UNCHANGED <<file, wa, reg>>

\* -------------------------------------------------------------- read_tiq
\* A TIQ file: an XML header of data_offset bytes, then nsamp samples of two
\* little-endian 4-byte integers each.
TiqFiles ==
    {[fmt |-> "tiq", data_offset |-> 9, nsamp |-> n, size |-> 9 + 8 * n,
      scale |-> 2] : n \in {MaxS}}

TiqI(g) == g + 1
TiqQ(g) == 50 + g + 1

\* f.seek(off); f.read(n) on a file of size bytes: the bytes obtained
BytesRead(size, off, n) == Max(0, Min(n, size - off))

\* the whole of read_tiq
ReadTiq(nframes, lframes, sframes) ==
    /\ Idle
    /\ Holds("tiq")
    /\ LET c == Begin("read_tiq", nframes, lframes, sframes)
           total_n_bytes == 8 * nframes * lframes
           start_n_bytes == 8 * (sframes - 1) * lframes
           got == BytesRead(file.size, file.data_offset + start_n_bytes,
                            total_n_bytes)
           first == start_n_bytes \div 8
           s1 == [SetFrames(self, nframes, lframes) EXCEPT
                     !.acq_bw = 40, !.center = 245, !.date_time = "xml",
                     !.number_samples = file.nsamp, !.rbw = 7, !.rf_att = 10,
                     !.fs = 1000, !.span = 30, !.scale = file.scale,
                     !.nframes_tot = file.nsamp \div lframes,
                     !.header = [xml |-> file.data_offset]]
       IN  IF file.fmt = "empty"
           THEN \* line 415: the first line of the file has no quoted number
                /\ call' = [c EXCEPT !.outcome = "raised",
                                     !.exit = "IndexError@415"]
                /\ self' = SetFrames(self, nframes, lframes)
                /\ frame' = [op |-> "read_tiq"]
                /\ opens' = Handles(1, 1)
           ELSE
           /\ opens' = Handles(3, 3)
           /\ frame' = [op |-> "read_tiq", got |-> got]
           /\ IF got % 4 # 0
              THEN /\ call' = [c EXCEPT !.outcome = "raised",
                                        !.exit = "ValueError@465"]
                   /\ self' = s1
              ELSE IF got % 8 # 0
              THEN /\ call' = [c EXCEPT !.outcome = "raised",
                                        !.exit = "ValueError@468"]
                   /\ self' = [s1 EXCEPT !.data_array =
                          [dtype |-> "float64",
                           v |-> [j \in 1..(got \div 4) |->
                                     IF j % 2 = 1
                                     THEN file.scale * TiqI(first + (j - 1) \div 2)
                                     ELSE file.scale * TiqQ(first + (j - 1) \div 2)]]]
              ELSE /\ call' = [c EXCEPT !.outcome = "returned", !.exit = "end@471"]
                   /\ self' = [s1 EXCEPT !.data_array =
                          [dtype |-> "complex128",
                           v |-> [k \in 1..(got \div 8) |->
                                     <<file.scale * TiqI(first + k - 1),
                                       file.scale * TiqQ(first + k - 1)>>]]]
    /\ UNCHANGED <<file, wa, reg>>

\* -------------------------------------------------------------- read_iqt
\* samples per frame (line 362) and bytes of a frame header (lines 356-360:
\* ten 2-byte fields and one 4-byte field)
IQT_FRAME_SAMPLES == 1024
IQT_FRAME_HEADER == 24
IQT_FRAME_SIZE == IQT_FRAME_HEADER + 4 * IQT_FRAME_SAMPLES

\* An IQT file: a text header of data_offset bytes that declares ValidFrames
\* and FFTPoints, then nframes frames.
IqtFiles ==
    {[fmt |-> "iqt", data_offset |-> 9, nframes |-> n, fft_points |-> 1024,
      size |-> 9 + n * IQT_FRAME_SIZE, scale |-> 3] : n \in {2}}

\* the j-th 16-bit integer (0-based) of the data block of frame fr (0-based)
IqtData(fr, j) == fr * 2 * IQT_FRAME_SAMPLES + j + 1

\* lines 379-384: sample k (0-based) of frame fr, the interleave order swapped
IqtSample(fr, k, scale) ==
    <<scale * IqtData(fr, 2 * k + 1), scale * IqtData(fr, 2 * k)>>

\* the whole of read_iqt
ReadIqt(nframes, lframes, sframes) ==
    /\ Idle
    /\ Holds("iqt")
    /\ LET c == Begin("read_iqt", nframes, lframes, sframes)
           total_n_bytes == nframes * IQT_FRAME_SIZE
           start_n_bytes == (sframes - 1) * IQT_FRAME_SIZE
           got == BytesRead(file.size, file.data_offset + start_n_bytes,
                            total_n_bytes)
           nread == got \div IQT_FRAME_SIZE
           s1 == [SetFrames(self, nframes, lframes) EXCEPT
                     !.header = [text |-> file.data_offset],
                     !.center = 245, !.span = 30,
                     !.nframes_tot = file.nframes, !.date_time = "header",
                     !.number_samples = file.nframes * file.fft_points,
                     !.fs = 1000, !.scale = file.scale]
       IN  IF file.fmt = "empty"
           THEN \* line 329: the first byte of the file is no digit
                /\ call' = [c EXCEPT !.outcome = "raised",
                                     !.exit = "ValueError@329"]
                /\ self' = SetFrames(self, nframes, lframes)
                /\ frame' = [op |-> "read_iqt"]
                /\ opens' = Handles(1, 1)
           ELSE
           /\ opens' = Handles(2, 2)
           /\ frame' = [op |-> "read_iqt", got |-> got]
           /\ IF got % IQT_FRAME_SIZE # 0
              THEN /\ call' = [c EXCEPT !.outcome = "raised",
                                        !.exit = "ValueError@377"]
                   /\ self' = [s1 EXCEPT !.data_array =
                          [dtype |-> "complex64",
                           v |-> [k \in 1..(IQT_FRAME_SAMPLES * nframes) |->
                                     <<0, 0>>]]]
              ELSE /\ call' = [c EXCEPT !.outcome = "returned", !.exit = "end@386"]
                   /\ self' = [s1 EXCEPT !.data_array =
                          [dtype |-> "complex64",
                           v |-> [k \in 1..(IQT_FRAME_SAMPLES * nframes) |->
                                     IF (k - 1) \div IQT_FRAME_SAMPLES < nread
                                     THEN IqtSample(
                                            sframes - 1 + (k - 1) \div IQT_FRAME_SAMPLES,
                                            (k - 1) % IQT_FRAME_SAMPLES, file.scale)
                                     ELSE <<0, 0>>]]]
    /\ UNCHANGED <<file, wa, reg>>

\* --------------------------------------------------------------- read_iq
\* the whole of read_iq: the header of lines 282-306 is read as in read_iqt,
\* no frame is read and scale is not set (line 308 is a comment)
ReadIq(nframes, lframes, sframes) ==
    /\ Idle
    /\ Holds("iqt")
    /\ IF file.fmt = "empty"
       THEN \* line 285: the first byte of the file is no digit
            /\ call' = [Begin("read_iq", nframes, lframes, sframes) EXCEPT
                           !.outcome = "raised", !.exit = "ValueError@285"]
            /\ self' = SetFrames(self, nframes, lframes)
       ELSE /\ call' = [Begin("read_iq", nframes, lframes, sframes) EXCEPT
                           !.outcome = "returned", !.exit = "end@306"]
            /\ self' = [SetFrames(self, nframes, lframes) EXCEPT
                           !.header = [text |-> file.data_offset],
                           !.center = 245, !.span = 30,
                           !.nframes_tot = file.nframes, !.date_time = "header",
                           !.number_samples = file.nframes * file.fft_points,
                           !.fs = 1000]
    /\ frame' = [op |-> "read_iq"]
    /\ opens' = Handles(1, 1)
    /\ UNCHANGED <<file, wa, reg>>

\* ----------------------------------------- read_bin, read_ascii, read_wav
\* A file of complex samples behind one leading pair: a raw file of
\* complex64 values whose first value holds fs and center, a text file of two
\* columns whose first line holds them, and a stereo sound file of 16-bit
\* samples whose 44-byte header holds the rate.
BinFiles ==
    {[fmt |-> "bin", nsamp |-> MaxS, size |-> 8 * (1 + MaxS),
      fs |-> 1000, center |-> 245]}
AsciiFiles ==
    {[fmt |-> "ascii", nsamp |-> MaxS, size |-> 16 * (1 + MaxS),
      fs |-> 1000, center |-> 245]}
WavFiles ==
    {[fmt |-> "wav", nsamp |-> MaxS, size |-> 44 + 4 * MaxS,
      fs |-> 44100, center |-> 0]}

\* all_data of the three readers: sample g (0-based) of the file
AllData(f) == [k \in 1..f.nsamp |-> <<k, 50 + k>>]

\* lines 218-221, 236-239, 262-265: the window cut out of all_data; a slice
\* that runs past the end is shortened
WindowOf(all, nframes, lframes, sframes) ==
    Slice(all, StartNBytes(sframes, lframes),
          StartNBytes(sframes, lframes) + TotalNBytes(nframes, lframes))

\* what the three readers assign, lines 208-221, 224-239 and 249-265
PlainRead(f, s, nframes, lframes, sframes) ==
    [SetFrames(s, nframes, lframes) EXCEPT
        !.fs = f.fs, !.center = f.center,
        !.number_samples = f.nsamp,
        !.nframes_tot = f.nsamp \div lframes,
        !.date_time = "ctime",
        !.data_array = [dtype |-> "complex64",
                        v |-> WindowOf(AllData(f), nframes, lframes, sframes)]]

\* the whole of read_bin; numpy.fromfile opens and closes the file itself
ReadBin(nframes, lframes, sframes) ==
    /\ Idle
    /\ Holds("bin")
    /\ IF file.fmt = "empty"
       THEN \* line 211: the array read from the file has no first element
            /\ call' = [Begin("read_bin", nframes, lframes, sframes) EXCEPT
                           !.outcome = "raised", !.exit = "IndexError@211"]
            /\ self' = SetFrames(self, nframes, lframes)
       ELSE /\ call' = [Begin("read_bin", nframes, lframes, sframes) EXCEPT
                           !.outcome = "returned", !.exit = "end@221"]
            /\ self' = PlainRead(file, self, nframes, lframes, sframes)
    /\ frame' = [op |-> "read_bin"]
    /\ opens' = Handles(0, 0)
    /\ UNCHANGED <<file, wa, reg>>

\* the whole of read_ascii
ReadAscii(nframes, lframes, sframes) ==
    /\ Idle
    /\ Holds("ascii")
    /\ IF file.fmt = "empty"
       THEN \* line 228: the table read from the file has no first row
            /\ call' = [Begin("read_ascii", nframes, lframes, sframes) EXCEPT
                           !.outcome = "raised", !.exit = "IndexError@228"]
            /\ self' = SetFrames(self, nframes, lframes)
       ELSE /\ call' = [Begin("read_ascii", nframes, lframes, sframes) EXCEPT
                           !.outcome = "returned", !.exit = "end@239"]
            /\ self' = PlainRead(file, self, nframes, lframes, sframes)
    /\ frame' = [op |-> "read_ascii"]
    /\ opens' = Handles(0, 0)
    /\ UNCHANGED <<file, wa, reg>>

\* the whole of read_wav; center is set to 0 (line 257)
ReadWav(nframes, lframes, sframes) ==
    /\ Idle
    /\ Holds("wav")
    /\ IF file.fmt = "empty"
       THEN \* line 253: the file does not start as a sound file
            /\ call' = [Begin("read_wav", nframes, lframes, sframes) EXCEPT
                           !.outcome = "raised", !.exit = "ValueError@253"]
            /\ self' = SetFrames(self, nframes, lframes)
       ELSE /\ call' = [Begin("read_wav", nframes, lframes, sframes) EXCEPT
                           !.outcome = "returned", !.exit = "end@265"]
            /\ self' = PlainRead(file, self, nframes, lframes, sframes)
    /\ frame' = [op |-> "read_wav"]
    /\ opens' = Handles(0, 0)
    /\ UNCHANGED <<file, wa, reg>>

\* ------------------------------------------------------------- read_tcap
BLOCK_HEADER_SIZE == 88
BLOCK_DATA_SIZE == 131072
BLOCK_SIZE == BLOCK_HEADER_SIZE + BLOCK_DATA_SIZE
\* the block count of line 490
TCAP_BLOCKS == 15625

\* bitwise operations on non-negative integers
RECURSIVE BitAnd(_, _)
BitAnd(a, b) ==
    IF a = 0 \/ b = 0 THEN 0
    ELSE (a % 2) * (b % 2) + 2 * BitAnd(a \div 2, b \div 2)

RECURSIVE Pow(_, _)
Pow(b, e) == IF e = 0 THEN 1 ELSE b * Pow(b, e - 1)

ShiftRight(a, n) == a \div Pow(2, n)

\* the mask of lines 574-593, 0x17
NIBBLE_MASK == 23

\* "(tfp[i] >> n) & 0x17": ba is the 12-byte register, i the 0-based index
Nibble(ba, i, n) == BitAnd(ShiftRight(ba[i + 1], n), NIBBLE_MASK)

\* parse_tcap_tfp, lines 572-600.  The seconds are kept as whole seconds and
\* a fraction counted in units of 1e-7 s.
ParseTcapTfp(ba) ==
    LET dh == Nibble(ba, 3, 0)
        dt == Nibble(ba, 4, 4)
        du == Nibble(ba, 4, 0)
        ht == Nibble(ba, 5, 4)
        hu == Nibble(ba, 5, 0)
        mt == Nibble(ba, 6, 4)
        mu == Nibble(ba, 6, 0)
        st == Nibble(ba, 7, 4)
        su == Nibble(ba, 7, 0)
        sem1 == Nibble(ba, 8, 4)
        sem2 == Nibble(ba, 8, 0)
        sem3 == Nibble(ba, 9, 4)
        sem4 == Nibble(ba, 9, 0)
        sem5 == Nibble(ba, 10, 4)
        sem6 == Nibble(ba, 10, 0)
        sem7 == Nibble(ba, 11, 4)
        days == dh * 100 + dt * 10 + du
        hours == ht * 10 + hu
        minutes == mt * 10 + mu
        whole == st * 10 + su
        frac7 == sem1 * 1000000 + sem2 * 100000 + sem3 * 10000 + sem4 * 1000
                 + sem5 * 100 + sem6 * 10 + sem7
    IN  [days |-> days, hours |-> hours, minutes |-> minutes,
         seconds |-> whole, frac7 |-> frac7,
         digits |-> <<dh, dt, du, ht, hu, mt, mu, st, su,
                      sem1, sem2, sem3, sem4, sem5, sem6, sem7>>,
         \* strftime('%Y-%m-%d %H:%M:%S') of ts_epoch: its whole seconds
         ts |-> (whole + 60 * (minutes + 60 * (hours + 24 * days)))
                + (frac7 \div 10000000)]

\* the register that encodes day 005, 12:30:45.1234567 with status 0
ExampleTfp == <<0, 0, 0, 0, 5, 18, 48, 69, 18, 52, 86, 112>>

\* A TCAP file of k blocks; of its bytes the model keeps the TFP register.
TcapFile(k, tfp) == [fmt |-> "tcap", size |-> k * BLOCK_SIZE, tfp |-> tfp]

TcapFiles ==
    {TcapFile(k, ExampleTfp) : k \in {1, TCAP_BLOCKS - 1, TCAP_BLOCKS, TCAP_BLOCKS + 1}}

\* a size check that accepts every whole number of blocks
TcapSizeAnyBlocks(filesize) == filesize > 0 /\ filesize % BLOCK_SIZE = 0
\* line 490
TcapSizeOk(filesize) == filesize = TCAP_BLOCKS * BLOCK_SIZE

\* line 520: where the copy starts
TcapSeek(start_n_bytes) == BLOCK_HEADER_SIZE + start_n_bytes

\* line 522: the handle stands on a multiple of 131160
AtBlockStart(pos) == pos % 131160 = 0

\* one iteration of "for i in range(total_n_bytes)", lines 522-530: ba holds
\* the file offset of every byte copied; at the end of the file read(1)
\* yields nothing
TcapIter(size, st) ==
    LET skip == AtBlockStart(st.pos)
        at == IF skip THEN st.pos + BLOCK_HEADER_SIZE ELSE st.pos
    IN  [i |-> st.i + 1,
         pos |-> IF at < size THEN at + 1 ELSE at,
         ba |-> IF at < size THEN Append(st.ba, at) ELSE st.ba,
         skips |-> IF skip THEN st.skips + 1 ELSE st.skips]

RECURSIVE TcapLoop(_, _, _)
TcapLoop(size, st, total_n_bytes) ==
    IF st.i >= total_n_bytes
    THEN st
    ELSE TcapLoop(size, TcapIter(size, st), total_n_bytes)

\* the whole of read_tcap
ReadTcap(nframes, lframes, sframes) ==
    /\ Idle
    /\ LET c == Begin("read_tcap", nframes, lframes, sframes)
           s1 == SetFrames(self, nframes, lframes)
           total_n_bytes == 4 * nframes * lframes
           start_n_bytes == 4 * (sframes - 1) * lframes
           st == TcapLoop(file.size,
                          [i |-> 0, pos |-> TcapSeek(start_n_bytes),
                           ba |-> <<>>, skips |-> 0],
                          total_n_bytes)
           s2 == [s1 EXCEPT
                     !.date_time = [ts |-> ParseTcapTfp(file.tfp).ts],
                     !.tcap_pio = "pio", !.tcap_scalers = "scalers",
                     !.fs = 312500, !.center = 160000, !.scale = 625,
                     !.nframes_tot = (TCAP_BLOCKS * 32768) \div nframes,
                     !.number_samples = TCAP_BLOCKS * 32768,
                     !.span = 312500]
       IN  IF ~TcapSizeOk(FileSize(file))
           THEN /\ call' = [c EXCEPT !.outcome = "returned", !.exit = "return@492"]
                /\ self' = s1
                /\ frame' = [op |-> "read_tcap"]
                /\ opens' = Handles(0, 0)
           ELSE /\ opens' = Handles(2, 2)
                /\ frame' = [op |-> "read_tcap", ba |-> st.ba, pos |-> st.pos,
                             skips |-> st.skips]
                /\ IF Len(st.ba) % 2 # 0
                   THEN /\ call' = [c EXCEPT !.outcome = "raised",
                                             !.exit = "ValueError@534"]
                        /\ self' = s2
                   ELSE IF Len(st.ba) % 4 # 0
                   THEN /\ call' = [c EXCEPT !.outcome = "raised",
                                             !.exit = "ValueError@537"]
                        /\ self' = [s2 EXCEPT !.data_array =
                               [dtype |-> "float32",
                                v |-> [k \in 1..(Len(st.ba) \div 2) |->
                                          <<st.ba[2 * k - 1], st.ba[2 * k]>>]]]
                   ELSE /\ call' = [c EXCEPT !.outcome = "returned",
                                             !.exit = "end@537"]
                        /\ self' = [s2 EXCEPT !.data_array =
                               [dtype |-> "complex64",
                                v |-> [k \in 1..(Len(st.ba) \div 4) |->
                                          <<st.ba[4 * k - 3], st.ba[4 * k - 2],
                                            st.ba[4 * k - 1], st.ba[4 * k]>>]]]
    /\ UNCHANGED <<file, wa, reg>>

\* the sample offsets at which the TCAP windows of the model start: the first
\* block, the first block boundary, the second and third block, the last
\* sample of the file, and the places where 88 + 4 * offset is at the end of
\* the file
TcapOffsets ==
    {0, 32767, 32768, 32769, 65537, 511999999, 512343727, 512343749}

\* the start frames tried on the file: a file that fails the size check is
\* rejected before sframes is looked at
TcapStarts(f, lframes) ==
    IF f.fmt = "tcap" /\ TcapSizeOk(f.size)
    THEN {(x \div lframes) + 1 : x \in TcapOffsets}
    ELSE {1}

\* ------------------------------------------------------------------ spec
Files ==
    TdmsFiles \cup TiqFiles \cup IqtFiles \cup TcapFiles
    \cup BinFiles \cup AsciiFiles \cup WavFiles \cup {EmptyFile}

Init ==
    /\ file \in Files
    /\ self = InitSelf
    /\ call = NoCall
    /\ frame = NoFrame
    /\ opens = Handles(0, 0)
    /\ wa = NoWa
    /\ reg = NoReg

Next ==
    \/ \E l \in ProbeLFrames : ReadTdmsInformation(l)
    \/ \E n \in NFrames, l \in LFrames, s \in 1..MaxS : ReadTdms(n, l, s)
    \/ \E n \in NFrames, l \in LFrames, s \in 1..MaxS : ReadTiq(n, l, s)
    \/ \E n \in NFrames, l \in LFrames, s \in 1..MaxS : ReadIqt(n, l, s)
    \/ \E n \in NFrames, l \in LFrames, s \in 1..MaxS : ReadIq(n, l, s)
    \/ \E n \in NFrames, l \in LFrames, s \in 1..MaxS : ReadBin(n, l, s)
    \/ \E n \in NFrames, l \in LFrames, s \in 1..MaxS : ReadAscii(n, l, s)
    \/ \E n \in NFrames, l \in LFrames, s \in 1..MaxS : ReadWav(n, l, s)
    \/ \E n \in NFrames, l \in LFrames :
          \E s \in TcapStarts(file, l) : ReadTcap(n, l, s)

Spec == Init /\ [][Next]_vars

\* ------------------------------------------- window arithmetic on its own
\* The arithmetic of read_tdms lines 143-155 applied to a geometry that is
\* given instead of probed.
AddrSpr == {1, 2, 3, 1024}
AddrRec == 1..4
AddrL == {1, 2, 3, 1024}
AddrN == {1, 2}
AddrS == 1..4

Address ==
    /\ wa.state = "in"
    /\ LET total == TotalNBytes(wa.N, wa.L)
           start == StartNBytes(wa.S, wa.L)
           start_record == StartRecord(start, wa.spr)
           starting == StartingSample(start, wa.spr)
           n_records == NRecords(starting, total, wa.spr)
       IN  wa' = [wa EXCEPT !.state = "out"] @@
                 [start_record |-> start_record, starting_sample |-> starting,
                  n_records |-> n_records,
                  too_much |-> TooMuch(start_record, n_records, wa.nrec)]
    /\ UNCHANGED <<file, self, call, frame, opens, reg>>

NoFile == [fmt |-> "none", size |-> 0]

InitAddr ==
    /\ file = NoFile
    /\ self = InitSelf
    /\ call = NoCall
    /\ frame = NoFrame
    /\ opens = Handles(0, 0)
    /\ reg = NoReg
    /\ wa \in [state : {"in"}, spr : AddrSpr, nrec : AddrRec,
               L : AddrL, N : AddrN, S : AddrS]

SpecAddr == InitAddr /\ [][Address]_vars

\* ------------------------------------------------- the TFP decoder on its own
\* the register holding digit d in every time nibble but nibble pos
\* (1..16, in the order dh dt du ht hu mt mu st su sem1..sem7), which holds v;
\* s is the status nibble, x the value of the undefined bytes 0..2 and u the
\* undefined low nibble of byte 11
TfpOf(dg, s, x, u) ==
    <<x, x, x, 16 * s + dg[1], 16 * dg[2] + dg[3], 16 * dg[4] + dg[5],
      16 * dg[6] + dg[7], 16 * dg[8] + dg[9], 16 * dg[10] + dg[11],
      16 * dg[12] + dg[13], 16 * dg[14] + dg[15], 16 * dg[16] + u>>

\* the digits of day 005, 12:30:45.1234567
ExampleDigits == <<0, 0, 5, 1, 2, 3, 0, 4, 5, 1, 2, 3, 4, 5, 6, 7>>
ZeroDigits == [i \in 1..16 |-> 0]

\* registers: one of two digit strings with one nibble replaced
TfpDigits ==
    {[base EXCEPT ![pos] = v] :
        base \in {ExampleDigits, ZeroDigits}, pos \in 1..16, v \in 0..15}

Decode ==
    /\ reg.state = "in"
    \* the method has no raise and no validity flag: it always returns
    /\ reg' = [state |-> "out", dg |-> reg.dg, ba |-> reg.ba,
               outcome |-> "returned", out |-> ParseTcapTfp(reg.ba)]
    /\ UNCHANGED <<file, self, call, frame, opens, wa>>

InitTfp ==
    /\ file = NoFile
    /\ self = InitSelf
    /\ call = NoCall
    /\ frame = NoFrame
    /\ opens = Handles(0, 0)
    /\ wa = NoWa
    /\ \E dg \in TfpDigits, s \in {0, 1}, x \in {0, 255}, u \in {0, 15} :
          reg = [state |-> "in", dg |-> dg, ba |-> TfpOf(dg, s, x, u)]

SpecTfp == InitTfp /\ [][Decode]_vars

\* ================================================================ claims
\* a reader call on a file of its own format has run to its end
ReaderOf(fmt) ==
    CASE fmt = "tdms" -> "read_tdms" [] fmt = "tiq" -> "read_tiq"
      [] fmt = "iqt" -> "read_iqt" [] fmt = "tcap" -> "read_tcap"
      [] OTHER -> "none"
ReadDone == call.op = ReaderOf(file.fmt) /\ call.outcome \in {"returned", "raised"}

\* the probe has stored the file's geometry in the instance
GeometryProbed ==
    /\ file.fmt = "tdms"
    /\ self.tdms_nSamplesPerRecord = file.spr
    /\ self.tdms_nRecordsPerFile = file.nrec
    /\ self.tdms_first_rec_size = RecEnd(file, 1)
    /\ self.tdms_other_rec_size = RecSegSize

\* complex samples the file holds
TotalSamples(f) ==
    CASE f.fmt = "tdms" -> f.spr * f.nrec
      [] f.fmt = "tiq" -> f.nsamp
      [] f.fmt = "iqt" -> f.nframes * IQT_FRAME_SAMPLES
      [] f.fmt = "tcap" -> (f.size \div BLOCK_SIZE) * (BLOCK_DATA_SIZE \div 4)
      [] OTHER -> 0

WindowInside == (call.S - 1 + call.N) * call.L <= TotalSamples(file)
BufferLen == IF self.data_array = None THEN -1 ELSE Len(self.data_array.v)

\* C1: every reader call with a window inside the file (read_tdms after a
\* successful probe, read_tcap on a file that passes its size check)
\* completes and leaves exactly N*L complex samples in data_array.
C1_ValidWindowYieldsNL ==
    (ReadDone /\ WindowInside /\ (file.fmt = "tdms" => GeometryProbed)
        /\ (file.fmt = "tcap" => TcapSizeOk(file.size)))
        => /\ call.outcome = "returned"
           /\ self.data_array # None
           /\ self.data_array.dtype \in {"complex64", "complex128"}
           /\ BufferLen = call.N * call.L

\* file offset of payload byte p of a TCAP file
PayloadOffset(p) ==
    (p \div BLOCK_DATA_SIZE) * BLOCK_SIZE + BLOCK_HEADER_SIZE + (p % BLOCK_DATA_SIZE)

\* C2: for a window inside the block grid, the bytes read_tcap copies are
\* the payload bytes 4*(S-1)*L .. 4*(S-1)*L + 4*N*L - 1 in order, also when
\* the window starts in a later block than the first.
C2_TcapCopiesPayloadRange ==
    (call.op = "read_tcap" /\ file.fmt = "tcap" /\ TcapSizeOk(file.size)
        /\ call.outcome \in {"returned", "raised"} /\ WindowInside)
        => frame.ba = [i \in 1..(4 * call.N * call.L) |->
                          PayloadOffset(4 * (call.S - 1) * call.L + i - 1)]

\* C3: when the geometry was probed correctly, every window read_tdms
\* accepts is read to the end, and sample k of data_array is
\* scale * (I[g] + jQ[g]) with g = (S-1)*L + k, for all 0 <= k < N*L.
C3_TdmsSamplesAreWindow ==
    (call.op = "read_tdms" /\ call.outcome \in {"returned", "raised"}
        /\ call.exit # "return@156" /\ GeometryProbed)
        => /\ call.exit = "end@205"
           /\ self.data_array.dtype = "complex64"
           /\ Len(self.data_array.v) = call.N * call.L
           /\ \A k \in 0..(call.N * call.L - 1) :
                 LET g == (call.S - 1) * call.L + k
                 IN  self.data_array.v[k + 1] =
                         <<self.scale * FileI(file, g), self.scale * FileQ(file, g)>>

\* a window of a later record that starts inside the record has been read
C3_Witness ==
    /\ call.op = "read_tdms" /\ call.exit = "end@205" /\ GeometryProbed
    /\ frame.start_record > 1 /\ frame.starting_sample > 0
    /\ frame.seeks = 1

\* C4: read_tdms rejects a window exactly when
\* start_unit + units_needed > units_per_file, with the zero-based
\* start_unit = ((S-1)*L) div spr and
\* units_needed = ((((S-1)*L) mod spr + N*L) div spr) + 1.
C4_RejectsExactlyBeyondFile ==
    (call.op = "read_tdms" /\ call.outcome \in {"returned", "raised"}
        /\ GeometryProbed)
        => LET spr == self.tdms_nSamplesPerRecord
               start_unit == ((call.S - 1) * call.L) \div spr
               intra == ((call.S - 1) * call.L) % spr
               units_needed == ((intra + call.N * call.L) \div spr) + 1
           IN  (call.exit = "return@156")
                   <=> (start_unit + units_needed > self.tdms_nRecordsPerFile)

\* C5: with 1024 samples per unit the request (L=1024, N=2, S=2) is
\* addressed as zero-based start_unit 1 and units_needed 2.
C5_ExampleAddressing ==
    (wa.state = "out" /\ wa.spr = 1024 /\ wa.L = 1024 /\ wa.N = 2 /\ wa.S = 2)
        => (wa.start_record - 1 = 1 /\ wa.n_records = 2)

\* C6: a reader call whose window is not inside the file ends in an error
\* outcome; it never returns normally.
C6_OutOfRangeIsAnError ==
    (ReadDone /\ ~WindowInside /\ (file.fmt = "tdms" => GeometryProbed)
        /\ (file.fmt = "tcap" => TcapSizeOk(file.size)))
        => call.outcome = "raised"

\* the step is a read_tdms call that took the return of line 156
RejectStep == call'.op = "read_tdms" /\ call'.exit = "return@156"

\* C7 as stated: a rejected read_tdms call opens no file and leaves every
\* field of the reader, lframes and nframes included, as it was.
C7_RejectIsNoOp ==
    [][RejectStep => (self' = self /\ opens'.opened = 0)]_vars

\* C7 as amended: a rejected read_tdms call opens no file and leaves every
\* field of the reader as it was, except lframes and nframes, which hold the
\* arguments of the call.
C7_RejectKeepsAllButFrames ==
    [][RejectStep =>
          /\ opens'.opened = 0
          /\ file' = file
          /\ self'.lframes = call'.L
          /\ self'.nframes = call'.N
          /\ \A fld \in (DOMAIN self) \ {"lframes", "nframes"} :
                self'[fld] = self[fld]]_vars

\* a window was rejected while the reader held a buffer of another window
C7_Witness ==
    /\ call.op = "read_tdms" /\ call.exit = "return@156"
    /\ self.data_array # None
    /\ Len(self.data_array.v) # call.N * call.L

\* C8 as stated: read_tcap's size check accepts every file that consists of
\* a whole number K >= 1 of blocks of 88 + 131072 bytes.
C8_AcceptsEveryBlockCount ==
    (call.op = "read_tcap" /\ call.outcome \in {"returned", "raised"}
        /\ file.size > 0 /\ file.size % (88 + 131072) = 0)
        => call.exit # "return@492"

\* C8 as amended: read_tcap's size check accepts a file exactly when it has
\* 15625 blocks of 88 + 131072 bytes; a file of 15624 or 15626 blocks is
\* rejected.
C8_AcceptsExactly15625Blocks ==
    (call.op = "read_tcap" /\ call.outcome \in {"returned", "raised"})
        => ((call.exit # "return@492") <=> (file.size = 15625 * (88 + 131072)))

\* a file of 15625 blocks was accepted and read to the end
C8_Witness ==
    /\ call.op = "read_tcap" /\ call.exit = "end@537"
    /\ file.size = 15625 * (88 + 131072)

\* the metadata fields of the reader
MetaFields ==
    {"acq_bw", "center", "date_time", "number_samples", "rbw", "rf_att", "fs",
     "span", "scale", "header", "nframes_tot", "tcap_scalers", "tcap_pio"}

\* C9: a read_tcap call on a file that fails the size check produces no
\* buffer, changes no metadata field and ends in an error outcome, which a
\* successful read never has.
C9_SizeMismatchIsReported ==
    [][(call'.op = "read_tcap" /\ file.size # 15625 * (88 + 131072))
          => /\ self'.data_array = self.data_array
             /\ \A fld \in MetaFields : self'[fld] = self[fld]
             /\ call'.outcome = "raised"]_vars

\* C10: a register whose time nibbles are all BCD digits decodes to its
\* digits: days = 100*dh + 10*dt + du, hours, minutes, seconds and the seven
\* sub-second digits.
C10_BcdDecodesToDigits ==
    (reg.state = "out" /\ \A i \in 1..16 : reg.dg[i] \in 0..9)
        => LET d == reg.dg
           IN  /\ reg.out.days = 100 * d[1] + 10 * d[2] + d[3]
               /\ reg.out.hours = 10 * d[4] + d[5]
               /\ reg.out.minutes = 10 * d[6] + d[7]
               /\ reg.out.seconds = 10 * d[8] + d[9]
               /\ reg.out.frac7 = d[10] * 1000000 + d[11] * 100000 + d[12] * 10000
                                  + d[13] * 1000 + d[14] * 100 + d[15] * 10 + d[16]

\* C11: the decoder returns a time only when every time nibble of the
\* register and every digit value it extracted lies in 0..9; otherwise it
\* flags the register as invalid.
C11_DigitsInRangeOrFlagged ==
    reg.state = "out"
        => \/ reg.outcome = "raised"
           \/ \A i \in 1..16 : reg.dg[i] \in 0..9 /\ reg.out.digits[i] \in 0..9

\* the read methods of the model
ReaderOps ==
    {"read_tdms", "read_tiq", "read_iqt", "read_tcap", "read_iq", "read_bin",
     "read_ascii", "read_wav"}

\* C12: a read call that repeats the call before it (same method, same
\* N, L, S, same file) ends as that call ended and leaves data_array and
\* every other field of the reader as that call left them.
C12_RepeatedReadChangesNothing ==
    [][(call'.op \in ReaderOps /\ call'.again)
          => /\ self' = self
             /\ call'.outcome = call.outcome
             /\ call'.exit = call.exit]_vars

\* an accepted window of a later record was read a second time
C12_Witness ==
    /\ call.again /\ call.op = "read_tdms" /\ call.exit = "end@205"
    /\ frame.start_record > 1

\* C13: a read_tdms call on an instance on which no read_tdms_information
\* call has completed ends in an error outcome and leaves data_array as it
\* was before the call.
C13_ReadBeforeProbeFails ==
    [][(call'.op = "read_tdms" /\ ~call.probed)
          => /\ call'.outcome = "raised"
             /\ self'.data_array = self.data_array]_vars

\* the capture metadata fields
CaptureFields ==
    {"center", "fs", "span", "rbw", "rf_att", "acq_bw", "scale", "date_time",
     "number_samples"}

\* C14 as stated: after a completed probe, a read_tdms call leaves every
\* capture metadata field, scale included, unchanged.
C14_ReadKeepsMetadata ==
    [][(call'.op = "read_tdms" /\ call.probed)
          => \A fld \in CaptureFields : self'[fld] = self[fld]]_vars

\* C14 as amended: after a completed probe, a read_tdms call leaves center,
\* fs, span, rbw, rf_att, acq_bw, date_time and number_samples unchanged;
\* scale changes only in a call that runs to its end, which sets it to the
\* gain of the first record of the file.
C14_ReadKeepsMetadataButScale ==
    [][(call'.op = "read_tdms" /\ call.probed)
          => /\ \A fld \in CaptureFields \ {"scale"} : self'[fld] = self[fld]
             /\ IF call'.exit = "end@205"
                THEN self'.scale = GainOf(1)
                ELSE self'.scale = self.scale]_vars

\* the first read after the probe has set scale
C14_Witness ==
    /\ call.op = "read_tdms" /\ call.probed /\ call.exit = "end@205"
    /\ self.scale = GainOf(1) /\ self.date_time = "ctime"

\* C15: on a file of at least two records that carry I and Q, whatever
\* the sample values, the probe ends with tdms_first_rec_size at the end
\* offset of record 1 and tdms_other_rec_size equal to the end offset of
\* record 2 minus the end offset of record 1.
C15_ProbeLearnsGeometry ==
    (call.op = "read_tdms_information" /\ call.outcome \in {"returned", "raised"}
        /\ file.fmt = "tdms" /\ file.nrec >= 2)
        => /\ self.tdms_first_rec_size = RecEnd(file, 1)
           /\ self.tdms_other_rec_size = RecEnd(file, 2) - RecEnd(file, 1)

\* the call ran the parse loop of read_tdms
TdmsLoopRan ==
    /\ call.op = "read_tdms"
    /\ call.exit \in {"end@205", "readSegment@178", "KeyError@187", "ValueError@200"}

\* C16: in the parse loop of read_tdms, when start_record > 1 there is
\* exactly one seek, after the first record, to the end of record
\* start_record - 1, and no segment of records 2 .. start_record - 1 is
\* parsed; when start_record = 1 there is no seek; the loop ends with the
\* position at the end of record start_record + n_records - 1.
C16_SeekOncePastFirstRecord ==
    TdmsLoopRan
        => LET sr == frame.start_record
               at == {frame.parsed[i] : i \in 1..Len(frame.parsed)}
           IN  /\ frame.seeks = (IF sr > 1 THEN 1 ELSE 0)
               /\ sr > 1 => /\ RecEnd(file, sr - 1) \in at
                            /\ \A p \in at : p < RecEnd(file, 1)
                                             \/ p >= RecEnd(file, sr - 1)
               /\ frame.pos = RecEnd(file, sr + frame.n_records - 1)

\* multiples of the block size in [from, to)
BoundariesCrossed(from, to) ==
    ((to + BLOCK_SIZE - 1) \div BLOCK_SIZE) - ((from + BLOCK_SIZE - 1) \div BLOCK_SIZE)

\* the state of read_tcap's copy loop after i iterations of the last call
TcapLoopAfter(i) ==
    TcapLoop(file.size,
             [i |-> 0, pos |-> TcapSeek(4 * (call.S - 1) * call.L),
              ba |-> <<>>, skips |-> 0], i)

\* C17: in every state of read_tcap's copy loop no byte of a block header
\* (file offset o with o mod 131160 < 88) has been appended, and the number
\* of 88-byte skips equals the number of block boundaries the position has
\* crossed since the seek.
C17_NoHeaderByteCopied ==
    (call.op = "read_tcap" /\ call.exit # "return@492"
        /\ call.outcome \in {"returned", "raised"})
        => \A i \in 0..(4 * call.N * call.L) :
              LET st == TcapLoopAfter(i)
              IN  /\ \A j \in 1..Len(st.ba) : st.ba[j] % 131160 >= 88
                  /\ st.skips = BoundariesCrossed(
                                    TcapSeek(4 * (call.S - 1) * call.L), st.pos)

\* C18: after a probe or a read call has returned, no handle that the call
\* opened is still open: every open it performed is matched by a close.
C18_NoHandleLeftOpen ==
    call.outcome = "returned" => opens.closed = opens.opened

\* C19: the decoded result depends only on the time nibbles: a register
\* decodes to what the register with the same time nibbles and zero in
\* bytes 0..2, in the status nibble and in the low nibble of byte 11
\* decodes to.
C19_OnlyTimeNibblesMatter ==
    reg.state = "out" => reg.out = ParseTcapTfp(TfpOf(reg.dg, 0, 0, 0))

\* C20: after a sequence of calls to read_tdms_information, read_tdms,
\* read_tiq and read_tcap that all returned, data_array is unset or holds
\* exactly nframes * lframes samples, for the nframes and lframes stored on
\* the instance.
C20_BufferMatchesFrames ==
    (call.clean /\ call.outcome = "returned"
        /\ file.fmt \in {"tdms", "tiq", "tcap"})
        => \/ self.data_array = None
           \/ Len(self.data_array.v) = self.nframes * self.lframes

\* C21: after a sequence of calls to read_tdms_information, read_tdms,
\* read_tiq and read_tcap that all completed, nframes_tot equals
\* floor(number_samples / lframes) for the lframes stored on the instance.
C21_FramesTotalMatchesLength ==
    (call.clean /\ call.outcome = "returned"
        /\ file.fmt \in {"tdms", "tiq", "tcap"})
        => self.nframes_tot = self.number_samples \div self.lframes

====
